---- MODULE Spec2Model ----
(***************************************************************************)
(* The live-log pipeline of the dashboard (frontend/src/main.js): the      *)
(* WebSocket client with its 3 s reconnect, the 10 s fallback poll, the    *)
(* deduplicating addLogEntry with its 500-entry cap, and the autoscroll    *)
(* toggle.  Everything runs on the browser's single event loop: an action  *)
(* is one callback run to completion.  The page is taken to contain the    *)
(* #logs element (addLogEntry returns at once without it).  main.js holds   *)
(* the pipeline twice, at lines 73-163 and 1242-1332, with the same text;   *)
(* the line numbers here are those of the first copy.                       *)
(*                                                                         *)
(* Beside the pipeline the module follows the dashboard state around it:   *)
(* the scope selector with its subscriptions and requests, the library's   *)
(* pagination, the list of Groq prompts and the uptime text.               *)
(***************************************************************************)
EXTENDS Integers, Sequences, FiniteSets, TLC

VARIABLES
    loaded,             \* DOMContentLoaded has run (initWebSocket called, toggle listener attached)
    sockets,            \* readyState of every WebSocket object that can still fire events, or that ws names
    ws,                 \* the module variable ws: 0 for null, else an index of sockets
    reconnectTimers,    \* pending setTimeout(initWebSocket, 3000) timers, in scheduling order
    pollIn,             \* ms until the fallback setInterval callback is due
    inflight,           \* fallback polls suspended at an await, in start order
    logs,               \* children of #logs, oldest first (the DisplayBuffer)
    displayedLogIds,    \* the Set displayedLogIds (the seen-set)
    scrollTop,          \* #logs.scrollTop
    autoscrollEnabled   \* the module variable autoscrollEnabled

VARIABLES
    currentScope,       \* the signal currentScope: "global" or a guild id
    currentGuild,       \* the signal currentGuild: "null" or a guild id
    navGuilds,          \* the guilds listed in #server-nav and #guild-list
    nowPlaying,         \* the guild whose song #now-playing shows with its controls, or "none"
    fetches,            \* GET requests suspended at an await: analytics, songs, guilds, init
    shownAnalytics,     \* the scope whose analytics are displayed, or "none"
    shownSongs,         \* the scope whose songs are listed in #songs-list, or "none"
    posts,              \* POST requests in flight: control, settings, leave
    libraryFetches,     \* the scopes for which a fetchLibrary is suspended at an await
    libraryData,        \* the signal libraryData
    libraryPage,        \* the signal libraryPage
    libraryView,        \* what renderLibraryPage last wrote: rows and the two buttons
    currentGroqPrompts, \* the module variable currentGroqPrompts
    statusData,         \* the signal statusData: the last status fetchStatus stored
    uptimeText          \* textContent of #stat-uptime

scopeVars == <<currentScope, currentGuild, navGuilds, nowPlaying, fetches,
               shownAnalytics, shownSongs, posts>>
libraryVars == <<libraryFetches, libraryData, libraryPage, libraryView>>
statusVars == <<statusData, uptimeText>>
appVars == <<scopeVars, libraryVars, currentGroqPrompts, statusVars>>

transportVars == <<loaded, sockets, ws, reconnectTimers, pollIn, inflight>>
viewVars == <<logs, displayedLogIds, scrollTop>>
pipelineVars == <<transportVars, viewVars, autoscrollEnabled>>

vars == <<loaded, sockets, ws, reconnectTimers, pollIn, inflight,
          logs, displayedLogIds, scrollTop, autoscrollEnabled, appVars>>

-----------------------------------------------------------------------------
(* Program constants *)

MAX_LOGS == 500
KEY_PREFIX_LEN == 50
SCROLL_THRESHOLD == 100
RECONNECT_DELAY == 3000
POLL_INTERVAL == 10000
LIBRARY_PAGE_SIZE == 50
SECONDS_PER_DAY == 86400
SECONDS_PER_HOUR == 3600
SECONDS_PER_MINUTE == 60

(* Bounds of the model *)

TickMs == 1000          \* granularity of the clock
MaxInflight == 1        \* fallback polls suspended at once
MaxBatch == 2           \* events in one /api/logs response
EntryHeight == 200      \* rendered height of one log entry, px
ClientHeight == 200     \* height of the #logs viewport, px
ScrollStep == 100       \* granularity of the user's scrolling, px
PreFill == 498          \* events already accepted when the flood specification starts
FloodLen == 503         \* length of the flood's event stream
MaxFetches == 2         \* GET requests of the scope's data suspended at once
MaxPosts == 1           \* POST requests in flight at once
MaxLibrary == 120       \* items in the longest library the server returns
MaxPrompts == 3         \* entries in the longest list of Groq prompts
MaxDays == 2            \* whole days in the longest uptime the server reports

Min(a, b) == IF a <= b THEN a ELSE b
Max(a, b) == IF a >= b THEN a ELSE b

-----------------------------------------------------------------------------
(* LogEvents *)

LogEvent(t, l, m) == [timestamp |-> t, level |-> l, message |-> m]

Pad49 == "0123456789012345678901234567890123456789012345678"

\* The events the server sends in the small specification: three distinct keys,
\* one pair (the 51-character messages) that differs only after character 50.
Events ==
    { LogEvent(1000, "info", "A"),
      LogEvent(999, "error", "B"),
      LogEvent(1000, "info", Pad49 \o "0x"),
      LogEvent(1000, "info", Pad49 \o "0y") }

\* The flood: strictly increasing timestamps, unique messages.
FloodEvent(i) == LogEvent(i, "info", "m" \o ToString(i))

\* A JSON object that is not a LogEvent: it has no message.
NoMessage == [timestamp |-> 1001, level |-> "info"]

\* The data of a channel frame: JSON text of a value, or text that is not JSON.
Frame(value) == [parses |-> TRUE, value |-> value]
Garbage == [parses |-> FALSE]
BadFrames == { Garbage, Frame(NoMessage) }

-----------------------------------------------------------------------------
(* addLogEntry *)

\* Mutant: the key takes one character more of the message.
Substring50_OffByOne(m) == SubSeq(m, 1, Min(KEY_PREFIX_LEN + 1, Len(m)))

\* message.substring(0, 50)
Substring50(m) == SubSeq(m, 1, Min(KEY_PREFIX_LEN, Len(m)))

\* Mutant: the level is left out of the key.
LogId_NoLevel(log) == ToString(log.timestamp) \o "-" \o Substring50(log.message)

\* `${log.timestamp}-${log.level}-${log.message.substring(0, 50)}`
LogId(log) == ToString(log.timestamp) \o "-" \o log.level \o "-" \o Substring50(log.message)

\* Geometry of #logs with n children: every entry is EntryHeight tall, and
\* scrollHeight is never less than clientHeight.
ScrollHeight(n) == Max(n * EntryHeight, ClientHeight)
MaxScrollTop(n) == ScrollHeight(n) - ClientHeight
\* An assignment to scrollTop is clamped to the scrollable range.
ClampScroll(v, n) == Max(0, Min(v, MaxScrollTop(n)))

\* logsEl.scrollHeight - logsEl.scrollTop <= logsEl.clientHeight + 100
IsAtBottom(n, top) == ScrollHeight(n) - top <= ClientHeight + SCROLL_THRESHOLD

\* Mutant: the oldest entry is dropped as soon as the cap is reached.
RemoveOverflow_Early(children) ==
    IF Len(children) >= MAX_LOGS THEN Tail(children) ELSE children

\* Mutant: the cap is enforced one entry late.
RemoveOverflow_OffByOne(children) ==
    IF Len(children) > MAX_LOGS + 1 THEN Tail(children) ELSE children

\* Mutant: overflow drops the newest entry instead of the oldest.
RemoveOverflow_Newest(children) ==
    IF Len(children) > MAX_LOGS THEN SubSeq(children, 1, MAX_LOGS) ELSE children

\* while (logsEl.children.length > 500) logsEl.removeChild(logsEl.firstChild)
RECURSIVE RemoveOverflow(_)
RemoveOverflow(children) ==
    IF Len(children) > MAX_LOGS THEN RemoveOverflow(Tail(children)) ELSE children

\* Mutant: the seen-set is never consulted.
IsDuplicate_Never(ids, log) == FALSE

\* if (displayedLogIds.has(logId)) return
IsDuplicate(ids, log) == LogId(log) \in ids

\* Mutant: the seen-set keeps the newest key only.
AddId_Newest(ids, log) == {LogId(log)}

\* Mutant: the key is not recorded.
AddId_Forget(ids, log) == ids

\* displayedLogIds.add(logId)
AddId(ids, log) == ids \cup {LogId(log)}

\* Mutant: the toggle is ignored.
ShouldScroll_IgnoreToggle(auto, isAtBottom, isEmpty) == isAtBottom \/ isEmpty

\* Mutant: the position of the viewport is ignored.
ShouldScroll_IgnorePosition(auto, isAtBottom, isEmpty) == auto

\* if (autoscrollEnabled && (isAtBottom || isEmpty))
ShouldScroll(auto, isAtBottom, isEmpty) == auto /\ (isAtBottom \/ isEmpty)

\* log.message.substring(...) throws a TypeError when log has no message.
LogThrows(log) == "message" \notin DOMAIN log

\* Mutant: the new entry is put before the others.
AppendChild_First(children, entry) == <<entry>> \o children

\* logsEl.appendChild(entry)
AppendChild(children, entry) == Append(children, entry)

\* The state addLogEntry reads and writes, as a record.
ViewState(l, ids, top) == [logs |-> l, ids |-> ids, scrollTop |-> top]

\* Mutant: the keys of evicted entries leave the seen-set with them.
AddLogEntry_EvictKeys(st, auto, log) ==
    IF LogThrows(log) \/ IsDuplicate(st.ids, log) THEN st
    ELSE LET appended == AppendChild(st.logs, log)
             top1 == IF ShouldScroll(auto, IsAtBottom(Len(st.logs), st.scrollTop), Len(st.logs) = 0)
                     THEN ClampScroll(ScrollHeight(Len(appended)), Len(appended))
                     ELSE st.scrollTop
             kept == RemoveOverflow(appended)
         IN  ViewState(kept, { LogId(kept[i]) : i \in DOMAIN kept }, ClampScroll(top1, Len(kept)))

\* Mutant: the scroll to the bottom is done before the seen-set is consulted.
AddLogEntry_ScrollFirst(st, auto, log) ==
    LET top0 == IF ShouldScroll(auto, IsAtBottom(Len(st.logs), st.scrollTop), Len(st.logs) = 0)
                THEN MaxScrollTop(Len(st.logs))
                ELSE st.scrollTop
    IN  IF LogThrows(log) THEN st
        ELSE IF IsDuplicate(st.ids, log) THEN ViewState(st.logs, st.ids, top0)
        ELSE LET appended == AppendChild(st.logs, log)
                 top1 == IF ShouldScroll(auto, IsAtBottom(Len(st.logs), st.scrollTop), Len(st.logs) = 0)
                         THEN ClampScroll(ScrollHeight(Len(appended)), Len(appended))
                         ELSE st.scrollTop
                 kept == RemoveOverflow(appended)
             IN  ViewState(kept, AddId(st.ids, log), ClampScroll(top1, Len(kept)))

\* addLogEntry(log) run on view state st with autoscrollEnabled = auto.  When
\* building the key throws, nothing has been written yet.
AddLogEntry(st, auto, log) ==
    LET isAtBottom == IsAtBottom(Len(st.logs), st.scrollTop)
        isEmpty    == Len(st.logs) = 0
    IN  IF LogThrows(log) THEN st
        ELSE IF IsDuplicate(st.ids, log) THEN st
        ELSE LET appended == AppendChild(st.logs, log)
                 top1 == IF ShouldScroll(auto, isAtBottom, isEmpty)
                         THEN ClampScroll(ScrollHeight(Len(appended)), Len(appended))
                         ELSE st.scrollTop
                 kept == RemoveOverflow(appended)
             IN  ViewState(kept, AddId(st.ids, log), ClampScroll(top1, Len(kept)))

\* Mutant: the list is walked from its end.
RECURSIVE AddAll_Reversed(_, _, _)
AddAll_Reversed(st, auto, batch) ==
    IF batch = <<>> THEN st
    ELSE AddLogEntry(AddAll_Reversed(st, auto, Tail(batch)), auto, Head(batch))

\* data.logs.forEach(log => addLogEntry(log)): an exception thrown by
\* addLogEntry leaves forEach and is caught by the callback's catch.
RECURSIVE AddAll(_, _, _)
AddAll(st, auto, batch) ==
    IF batch = <<>> THEN st
    ELSE IF LogThrows(Head(batch)) THEN st
    ELSE AddAll(AddLogEntry(st, auto, Head(batch)), auto, Tail(batch))

\* Mutant: a frame that is not JSON is shown as an entry of its own.
OnMessage_Placeholder(st, auto, data) ==
    IF data.parses
    THEN AddLogEntry(st, auto, data.value)
    ELSE AddLogEntry(st, auto, LogEvent(0, "error", "bad frame"))

\* const log = JSON.parse(e.data); addLogEntry(log): an exception thrown by
\* either leaves the handler before anything is written.
OnMessage(st, auto, data) ==
    IF data.parses THEN AddLogEntry(st, auto, data.value) ELSE st

Current == ViewState(logs, displayedLogIds, scrollTop)

SetView(st) ==
    /\ logs' = st.logs
    /\ displayedLogIds' = st.ids
    /\ scrollTop' = st.scrollTop

-----------------------------------------------------------------------------
(* The scope selector: signals, subscriptions, requests *)

\* The guilds the bot is in; a scope is "global" or one of them.
Guilds == {"g1", "g2"}
Scopes == {"global"} \cup Guilds

\* A GET request suspended at its await.  Its scope is the one currentScope
\* had when the url was built ("all" for the requests that name no scope).
Fetch(kind, scope) == [kind |-> kind, scope |-> scope]

\* The two effects that read currentScope, run after currentScope.value
\* changed from old to new: fetchAnalytics(), and fetchSongs() unless the new
\* scope is 'global'.  (A signal set to the value it holds runs no effect.)
ScopeEffectsFetches(fs, old, new) ==
    IF new = old THEN fs
    ELSE fs \cup {Fetch("analytics", new)}
            \cup (IF new # "global" THEN {Fetch("songs", new)} ELSE {})

\* The first effect also calls fetchLibrary().
ScopeEffectsLibrary(ls, old, new) == IF new = old THEN ls ELSE ls \cup {new}

\* A guild list as /api/guilds and /api/dashboard-init return it: the guilds
\* in the server's order, and those of them that are playing a song.
GuildList(list, playing) == [guilds |-> list, playing |-> playing]

SeqRange(seq) == { seq[i] : i \in DOMAIN seq }

\* guilds.find(g => g.is_playing && g.current_song), or
\* guilds.find(g => g.id === currentScope.value && g.is_playing && g.current_song)
UpdateNowPlaying(scope, data) ==
    LET hits == { i \in DOMAIN data.guilds :
                    /\ data.guilds[i] \in data.playing
                    /\ scope # "global" => data.guilds[i] = scope }
    IN  IF hits = {} THEN "none"
        ELSE data.guilds[CHOOSE i \in hits : \A j \in hits : i <= j]

\* if (!currentGuild.value && data.guilds.length > 0) currentGuild.value = data.guilds[0].id
FirstGuild(guild, data) ==
    IF guild = "null" /\ Len(data.guilds) > 0 THEN data.guilds[1] ELSE guild

\* control(action): /api/guilds/${currentGuild.value}/control/${action}
ControlTarget(scope, guild) == guild

\* Mutant: the settings go to currentGuild.
MutationTarget_Guild(scope, guild) == guild

\* saveServerSettings, leaveServer: const targetGuild = currentScope.value
MutationTarget(scope, guild) == scope

\* if (!currentScope.value || currentScope.value === 'global') return
MutationGuard(scope) == scope # "global"

Post(kind, guild) == [kind |-> kind, guild |-> guild]

-----------------------------------------------------------------------------
(* The library and its pagination *)

\* The library the server returns when it holds n items.
Library(n) == [i \in 1 .. n |-> i]

\* array.slice(start, end), for 0 <= start <= end
Slice(seq, start, end) == SubSeq(seq, start + 1, Min(end, Len(seq)))

\* Mutant: the page starts one item late.
PageStart_OffByOne(page) == (page - 1) * LIBRARY_PAGE_SIZE + 1

\* const start = (libraryPage.value - 1) * LIBRARY_PAGE_SIZE
PageStart(page) == (page - 1) * LIBRARY_PAGE_SIZE

\* Math.ceil(libraryData.value.length / LIBRARY_PAGE_SIZE)
TotalPages(n) == (n + LIBRARY_PAGE_SIZE - 1) \div LIBRARY_PAGE_SIZE

\* renderLibraryPage(): the rows written to #library-list and the state of
\* the two buttons of #library-pagination (there are none for an empty library).
RenderLibraryPage(data, page) ==
    IF Len(data) = 0
    THEN [rows |-> <<>>, buttons |-> FALSE, prevDisabled |-> TRUE, nextDisabled |-> TRUE]
    ELSE [rows |-> Slice(data, PageStart(page), PageStart(page) + LIBRARY_PAGE_SIZE),
          buttons |-> TRUE,
          prevDisabled |-> (page = 1),
          nextDisabled |-> (page = TotalPages(Len(data)))]

-----------------------------------------------------------------------------
(* The Groq prompts *)

\* A prompt: its name stands for the texts of the editor; enabled is "true",
\* "false" or "undefined" (settings saved before the flag existed).
Prompt(name, enabled) == [name |-> name, enabled |-> enabled]

\* !value, for a value that is true, false or undefined
JsNot(value) == IF value = "true" THEN "false" ELSE "true"

\* let enabled = p.enabled !== false
ShownEnabled(p) == p.enabled # "false"

\* array[index] is an element: the array's indices start at 0, the
\* sequence's at 1.
HasIndex(array, index) == index + 1 \in DOMAIN array

\* newPrompt.enabled = currentGroqPrompts[index].enabled
SavedEnabled(prompts, index) == prompts[index + 1].enabled

\* savePrompt() with index in #edit-prompt-index and name in the editor
SavePromptList(prompts, index, name) ==
    IF index >= 0 /\ HasIndex(prompts, index)
    THEN [prompts EXCEPT ![index + 1] = Prompt(name, SavedEnabled(prompts, index))]
    ELSE Append(prompts, Prompt(name, "true"))

\* currentGroqPrompts.splice(index, 1), for index >= 0
Splice1(prompts, index) ==
    SubSeq(prompts, 1, index) \o SubSeq(prompts, index + 2, Len(prompts))

\* if (currentGroqPrompts[index]) currentGroqPrompts[index].enabled = !currentGroqPrompts[index].enabled
TogglePromptList(prompts, index) ==
    IF HasIndex(prompts, index)
    THEN [prompts EXCEPT ![index + 1] = Prompt(prompts[index + 1].name, JsNot(prompts[index + 1].enabled))]
    ELSE prompts

-----------------------------------------------------------------------------
(* formatUptime *)

RECURSIVE Join(_, _)
\* parts.join(sep)
Join(parts, sep) ==
    IF parts = <<>> THEN ""
    ELSE IF Len(parts) = 1 THEN parts[1]
    ELSE parts[1] \o sep \o Join(Tail(parts), sep)

Part(value, unit) == [value |-> value, unit |-> unit]

\* Mutant: the hours are not reduced modulo the day.
UptimeParts_HoursNotReduced(seconds) ==
    LET days    == seconds \div SECONDS_PER_DAY
        hours   == seconds \div SECONDS_PER_HOUR
        minutes == (seconds % SECONDS_PER_HOUR) \div SECONDS_PER_MINUTE
        secs    == seconds % SECONDS_PER_MINUTE
        p1 == IF days > 0 THEN <<Part(days, "d")>> ELSE <<>>
        p2 == IF hours > 0 THEN Append(p1, Part(hours, "h")) ELSE p1
        p3 == IF minutes > 0 THEN Append(p2, Part(minutes, "m")) ELSE p2
    IN  IF secs > 0 \/ p3 = <<>> THEN Append(p3, Part(secs, "s")) ELSE p3

\* The parts formatUptime(seconds) pushes, for a number of seconds that is not 0.
UptimeParts(seconds) ==
    LET days    == seconds \div SECONDS_PER_DAY
        rest1   == seconds % SECONDS_PER_DAY
        hours   == rest1 \div SECONDS_PER_HOUR
        rest2   == rest1 % SECONDS_PER_HOUR
        minutes == rest2 \div SECONDS_PER_MINUTE
        secs    == rest2 % SECONDS_PER_MINUTE
        p1 == IF days > 0 THEN <<Part(days, "d")>> ELSE <<>>
        p2 == IF hours > 0 THEN Append(p1, Part(hours, "h")) ELSE p1
        p3 == IF minutes > 0 THEN Append(p2, Part(minutes, "m")) ELSE p2
    IN  IF secs > 0 \/ p3 = <<>> THEN Append(p3, Part(secs, "s")) ELSE p3

\* formatUptime(seconds) for a number: '0s' for 0, else the parts joined by ' '.
FormatUptime(seconds) ==
    IF seconds = 0 THEN "0s"
    ELSE LET parts == UptimeParts(seconds)
         IN  Join([i \in DOMAIN parts |-> ToString(parts[i].value) \o parts[i].unit], " ")

\* formatUptime(data.uptime_seconds): '0s' when the status has no uptime_seconds.
UptimeOf(data) ==
    IF "uptime_seconds" \in DOMAIN data THEN FormatUptime(data.uptime_seconds) ELSE "0s"

\* The uptimes the server reports.
Uptimes ==
    { d * SECONDS_PER_DAY + h * SECONDS_PER_HOUR + m * SECONDS_PER_MINUTE + x :
        d \in 0 .. MaxDays, h \in {0, 1, 23}, m \in {0, 1, 59}, x \in {0, 1, 30, 59} }

\* The status objects fetchStatus may receive, and the one it falls back to.
Offline == [status |-> "offline"]
Statuses == { [status |-> "online", uptime_seconds |-> u] : u \in Uptimes } \cup { Offline }

-----------------------------------------------------------------------------
(* The dashboard state once the module has been evaluated: the effects have *)
(* run once, so fetchAnalytics() and fetchLibrary() are suspended for the   *)
(* global scope, the empty library and the offline status are rendered.     *)

AppInit ==
    /\ currentScope = "global"
    /\ currentGuild = "null"
    /\ navGuilds = {}
    /\ nowPlaying = "none"
    /\ fetches = {Fetch("analytics", "global")}
    /\ shownAnalytics = "none"
    /\ shownSongs = "none"
    /\ posts = {}
    /\ libraryFetches = {"global"}
    /\ libraryData = <<>>
    /\ libraryPage = 1
    /\ libraryView = RenderLibraryPage(<<>>, 1)
    /\ currentGroqPrompts = <<>>
    /\ statusData = Offline
    /\ uptimeText = UptimeOf(Offline)

-----------------------------------------------------------------------------
(* Initial state: the module has been evaluated, DOMContentLoaded not yet. *)

Init ==
    /\ loaded = FALSE
    /\ sockets = <<>>
    /\ ws = 0
    /\ reconnectTimers = <<>>
    /\ pollIn = POLL_INTERVAL
    /\ inflight = <<>>
    /\ logs = <<>>
    /\ displayedLogIds = {}
    /\ scrollTop = 0
    /\ autoscrollEnabled = TRUE
    /\ AppInit

-----------------------------------------------------------------------------
(* The push channel *)

\* ws.readyState === WebSocket.OPEN, false when ws is null
WsIsOpen == ws # 0 /\ sockets[ws] = "OPEN"

\* Mutant: a close schedules two reconnects.
ScheduleReconnect_Twice(timers) ==
    timers \o << [remaining |-> RECONNECT_DELAY, waited |-> 0],
                 [remaining |-> RECONNECT_DELAY, waited |-> 0] >>

\* Mutant: the reconnect is scheduled without delay.
ScheduleReconnect_Immediate(timers) ==
    Append(timers, [remaining |-> 0, waited |-> 0])

\* setTimeout(initWebSocket, 3000): waited counts the time since the close.
ScheduleReconnect(timers) ==
    Append(timers, [remaining |-> RECONNECT_DELAY, waited |-> 0])

\* initWebSocket(): new WebSocket(wsUrl) either throws (caught and logged, ws
\* keeps its old value) or returns a CONNECTING socket that ws then names.
\* Closed sockets nobody names any more are dropped from the model.
InitWebSocket(throws) ==
    IF throws
    THEN UNCHANGED <<sockets, ws>>
    ELSE LET alive == SelectSeq(sockets, LAMBDA s : s # "CLOSED")
         IN  /\ sockets' = Append(alive, "CONNECTING")
             /\ ws' = Len(alive) + 1

\* document.addEventListener('DOMContentLoaded', ...): initWebSocket(),
\* fetchDashboardInit() (which shows the skeletons first), fetchSongs(),
\* fetchLibrary(), the intervals, and the autoscroll toggle's listener.
DOMContentLoaded ==
    /\ ~loaded
    /\ loaded' = TRUE
    /\ \E throws \in BOOLEAN : InitWebSocket(throws)
    /\ nowPlaying' = "none"
    /\ fetches' = fetches \cup {Fetch("init", "all"), Fetch("songs", currentScope)}
    /\ libraryFetches' = libraryFetches \cup {currentScope}
    /\ UNCHANGED <<reconnectTimers, pollIn, inflight, viewVars, autoscrollEnabled>>
    /\ UNCHANGED <<currentScope, currentGuild, navGuilds, shownAnalytics, shownSongs, posts,
                   libraryData, libraryPage, libraryView, currentGroqPrompts, statusVars>>

\* ws.onopen: logs only.
SocketOpen(i) ==
    /\ sockets[i] = "CONNECTING"
    /\ sockets' = [sockets EXCEPT ![i] = "OPEN"]
    /\ UNCHANGED <<loaded, ws, reconnectTimers, pollIn, inflight, viewVars, autoscrollEnabled, appVars>>

\* ws.onmessage on a frame with the given data; frames arrive only while OPEN.
SocketMessage(i, data) ==
    /\ sockets[i] = "OPEN"
    /\ SetView(OnMessage(Current, autoscrollEnabled, data))
    /\ UNCHANGED <<transportVars, autoscrollEnabled, appVars>>

\* Mutant: an error schedules a reconnect, as a close does.
OnError_Reconnect(timers) == ScheduleReconnect(timers)

\* ws.onerror = (err) => console.error(...): no timer is set.
OnError(timers) == timers

\* ws.onerror: logs only.
SocketError(i) ==
    /\ sockets[i] \in {"CONNECTING", "OPEN", "CLOSING"}
    /\ reconnectTimers' = OnError(reconnectTimers)
    /\ UNCHANGED <<loaded, sockets, ws, pollIn, inflight, viewVars, autoscrollEnabled, appVars>>

\* The server starts the closing handshake: readyState becomes CLOSING.
SocketClosing(i) ==
    /\ sockets[i] = "OPEN"
    /\ sockets' = [sockets EXCEPT ![i] = "CLOSING"]
    /\ UNCHANGED <<loaded, ws, reconnectTimers, pollIn, inflight, viewVars, autoscrollEnabled, appVars>>

\* The connection is closed (failed connect, network failure, end of the
\* handshake): readyState becomes CLOSED and ws.onclose runs.
SocketClose(i) ==
    /\ sockets[i] \in {"CONNECTING", "OPEN", "CLOSING"}
    /\ sockets' = [sockets EXCEPT ![i] = "CLOSED"]
    /\ reconnectTimers' = ScheduleReconnect(reconnectTimers)
    /\ UNCHANGED <<loaded, ws, pollIn, inflight, viewVars, autoscrollEnabled, appVars>>

\* A reconnect timer expires: initWebSocket().
ReconnectFire ==
    /\ reconnectTimers # <<>>
    /\ Head(reconnectTimers).remaining = 0
    /\ reconnectTimers' = Tail(reconnectTimers)
    /\ \E throws \in BOOLEAN : InitWebSocket(throws)
    /\ UNCHANGED <<loaded, pollIn, inflight, viewVars, autoscrollEnabled, appVars>>

-----------------------------------------------------------------------------
(* The fallback poll *)

\* Mutant: only a missing socket lets the poll run.
PollGuard_NullOnly == ws = 0

\* Mutant: the poll runs whatever the channel's state.
PollGuard_Always == TRUE

\* if (!ws || ws.readyState !== WebSocket.OPEN)
PollGuard == ws = 0 \/ sockets[ws] # "OPEN"

\* The setInterval callback, up to its first await: the guard, then
\* fetch('/api/logs').  openAtStart records the channel state at the tick.
PollTick ==
    /\ pollIn = 0
    /\ pollIn' = POLL_INTERVAL
    /\ IF PollGuard
       THEN /\ Len(inflight) < MaxInflight
            /\ inflight' = Append(inflight, [openAtStart |-> WsIsOpen])
       ELSE UNCHANGED inflight
    /\ UNCHANGED <<loaded, sockets, ws, reconnectTimers, viewVars, autoscrollEnabled, appVars>>

\* Mutant: the body of a response is used whatever its status.
OnResponse_IgnoreStatus(st, auto, outcome, body) ==
    IF outcome # "reject" /\ body.hasLogs THEN AddAll(st, auto, body.logs) ELSE st

\* if (res.ok) { const data = await res.json(); if (data.logs) data.logs.forEach(...) }
OnResponse(st, auto, outcome, body) ==
    IF outcome = "ok" /\ body.hasLogs THEN AddAll(st, auto, body.logs) ELSE st

RemoveAt(seq, k) == SubSeq(seq, 1, k - 1) \o SubSeq(seq, k + 1, Len(seq))

\* The rest of the callback, from the settling of await fetch(...) to its end
\* (nothing shared is read or written between its two awaits):
\*   "reject"  fetch or res.json() rejects: caught and logged;
\*   "notok"   !res.ok: skipped;
\*   "ok"      the body arrives: if (data.logs) data.logs.forEach(addLogEntry).
PollSettle(k, outcome, body) ==
    /\ k \in DOMAIN inflight
    /\ inflight' = RemoveAt(inflight, k)
    /\ SetView(OnResponse(Current, autoscrollEnabled, outcome, body))
    /\ UNCHANGED <<loaded, sockets, ws, reconnectTimers, pollIn, autoscrollEnabled, appVars>>

Body(hasLogs, batch) == [hasLogs |-> hasLogs, logs |-> batch]
\* A body without a logs field.
NoBody == Body(FALSE, <<>>)

-----------------------------------------------------------------------------
(* The user *)

\* The autoscroll toggle's change listener.
ToggleAutoscroll(checked) ==
    /\ loaded
    /\ autoscrollEnabled' = checked
    /\ scrollTop' = IF checked
                    THEN ClampScroll(ScrollHeight(Len(logs)), Len(logs))
                    ELSE scrollTop
    /\ UNCHANGED <<transportVars, logs, displayedLogIds, appVars>>

\* switchScope(scope, targetTab), from an item of #server-nav: writes
\* currentScope, which runs the effects that read it, then the layout classes
\* and the scope's panels; it reads and writes nothing of the log pipeline.
SwitchScope(scope) ==
    /\ loaded
    /\ scope \in {"global"} \cup navGuilds
    /\ currentScope' = scope
    /\ fetches' = ScopeEffectsFetches(fetches, currentScope, scope)
    /\ IF fetches' = fetches THEN TRUE ELSE Cardinality(fetches') <= MaxFetches
    /\ libraryFetches' = ScopeEffectsLibrary(libraryFetches, currentScope, scope)
    /\ UNCHANGED <<pipelineVars, currentGuild, navGuilds, nowPlaying, shownAnalytics,
                   shownSongs, posts, libraryData, libraryPage, libraryView,
                   currentGroqPrompts, statusVars>>

\* The user scrolls #logs.
UserScroll(p) ==
    /\ p # scrollTop
    /\ scrollTop' = ClampScroll(p, Len(logs))
    /\ UNCHANGED <<transportVars, logs, displayedLogIds, autoscrollEnabled, appVars>>

ScrollStops(n) ==
    { k * ScrollStep : k \in 0 .. (MaxScrollTop(n) \div ScrollStep) } \cup { MaxScrollTop(n) }

-----------------------------------------------------------------------------
(* Time *)

\* TickMs pass: every timer comes closer to being due; none is forced to run.
Tick ==
    /\ pollIn' = Max(0, pollIn - TickMs)
    /\ reconnectTimers' =
         [i \in DOMAIN reconnectTimers |->
            [remaining |-> Max(0, reconnectTimers[i].remaining - TickMs),
             waited    |-> Min(RECONNECT_DELAY, reconnectTimers[i].waited + TickMs)]]
    /\ UNCHANGED <<loaded, sockets, ws, inflight, viewVars, autoscrollEnabled, appVars>>

-----------------------------------------------------------------------------
(* The small specification: any event of Events, in any order, on either transport. *)

\* The lists a response may carry: up to MaxBatch events of E in any order,
\* none listed twice (two events with one key may both be listed).
Batches(E) ==
    UNION { { b \in [1 .. n -> E] : \A i, j \in 1 .. n : b[i] = b[j] => i = j } :
            n \in 0 .. MaxBatch }

\* Responses with one event that has no message between two that are well-formed.
PoisonedBatches(E) ==
    { <<b[1], NoMessage, b[2]>> : b \in { c \in [1 .. 2 -> E] : c[1] # c[2] } }

\* The frames the server sends: every event, and the frames that are no LogEvent.
Frames(E) == { Frame(e) : e \in E } \cup BadFrames

\* What the server sends in the small specification.
EventBatches == Batches(Events)
EventPoisonedBatches == PoisonedBatches(Events)
EventFrames == Frames(Events)

Next ==
    \/ DOMContentLoaded
    \/ \E i \in DOMAIN sockets : SocketOpen(i)
    \/ \E i \in DOMAIN sockets : \E data \in EventFrames : SocketMessage(i, data)
    \/ \E i \in DOMAIN sockets : SocketError(i)
    \/ \E i \in DOMAIN sockets : SocketClosing(i)
    \/ \E i \in DOMAIN sockets : SocketClose(i)
    \/ ReconnectFire
    \/ PollTick
    \/ \E k \in DOMAIN inflight : \E outcome \in {"reject", "notok"} : PollSettle(k, outcome, NoBody)
    \/ \E k \in DOMAIN inflight : \E b \in EventBatches : PollSettle(k, "ok", Body(TRUE, b))
    \/ \E k \in DOMAIN inflight : \E b \in EventPoisonedBatches : PollSettle(k, "ok", Body(TRUE, b))
    \/ \E k \in DOMAIN inflight : PollSettle(k, "ok", NoBody)
    \/ \E checked \in BOOLEAN : ToggleAutoscroll(checked)
    \/ \E scope \in Scopes : SwitchScope(scope)
    \/ \E p \in ScrollStops(Len(logs)) : UserScroll(p)
    \/ Tick

Spec == Init /\ [][Next]_vars

-----------------------------------------------------------------------------
(* The flood specification: the buffer at its cap.  The page has loaded, its *)
(* socket is open and has delivered the first PreFill events of the flood    *)
(* (the state is computed by AddAll, as the frames would have); from there   *)
(* the same handlers run, fed by the stream in order, with re-deliveries.    *)

\* addLogEntry run on FloodEvent(lo), ..., FloodEvent(hi) in turn.  The fold is
\* split in halves, and the left half is evaluated (its length read) before the
\* right one starts, only to keep TLC's evaluation shallow.
RECURSIVE AddFlood(_, _, _, _)
AddFlood(st, auto, lo, hi) ==
    IF lo > hi THEN st
    ELSE IF lo = hi THEN AddLogEntry(st, auto, FloodEvent(lo))
    ELSE LET mid  == (lo + hi) \div 2
             left == AddFlood(st, auto, lo, mid)
         IN  IF Len(left.logs) >= 0 THEN AddFlood(left, auto, mid + 1, hi) ELSE left

FloodInit ==
    LET st == AddFlood(ViewState(<<>>, {}, 0), TRUE, 1, PreFill)
    IN  /\ loaded = TRUE
        /\ sockets = <<"OPEN">>
        /\ ws = 1
        /\ reconnectTimers = <<>>
        /\ pollIn = POLL_INTERVAL
        /\ inflight = <<>>
        /\ logs = st.logs
        /\ displayedLogIds = st.ids
        /\ scrollTop = st.scrollTop
        /\ autoscrollEnabled = TRUE
        /\ currentScope = "global"
        /\ currentGuild = "g1"
        /\ navGuilds = {"g1"}
        /\ nowPlaying = "none"
        /\ fetches = {Fetch("analytics", "global"), Fetch("analytics", "g1"), Fetch("songs", "g1")}
        /\ shownAnalytics = "global"
        /\ shownSongs = "global"
        /\ posts = {}
        /\ libraryFetches = {"global", "g1"}
        /\ libraryData = <<>>
        /\ libraryPage = 1
        /\ libraryView = RenderLibraryPage(<<>>, 1)
        /\ currentGroqPrompts = <<>>
        /\ statusData = Offline
        /\ uptimeText = UptimeOf(Offline)

\* Events of the stream accepted so far: the next fresh one is Accepted + 1.
Accepted == Cardinality(displayedLogIds)

\* A frame: the next fresh event, or the first or the latest one again.
FloodFrames ==
    { Frame(FloodEvent(i)) : i \in {1, Accepted} \cup {j \in {Accepted + 1} : j <= FloodLen} }

\* A poll response: a run of the stream around its end, or the first event again.
FloodBatches ==
    { <<FloodEvent(1)>> } \cup
    { [i \in 1 .. n |-> FloodEvent(a + i - 1)] :
        <<a, n>> \in { <<a, n>> \in (Accepted - 1 .. Accepted + 1) \X (1 .. MaxBatch) :
                         a >= 1 /\ a + n - 1 <= FloodLen } }

FloodStops == {0, MaxScrollTop(Len(logs))}

FloodNext ==
    \/ \E i \in DOMAIN sockets : SocketOpen(i)
    \/ \E i \in DOMAIN sockets : \E data \in FloodFrames : SocketMessage(i, data)
    \/ \E i \in DOMAIN sockets : SocketError(i)
    \/ \E i \in DOMAIN sockets : SocketClose(i)
    \/ ReconnectFire
    \/ PollTick
    \/ \E k \in DOMAIN inflight : PollSettle(k, "reject", NoBody)
    \/ \E k \in DOMAIN inflight : \E b \in FloodBatches : PollSettle(k, "ok", Body(TRUE, b))
    \/ \E checked \in BOOLEAN : ToggleAutoscroll(checked)
    \/ \E scope \in Scopes : SwitchScope(scope)
    \/ \E p \in FloodStops : UserScroll(p)
    \/ Tick

FloodSpec == FloodInit /\ [][FloodNext]_vars

-----------------------------------------------------------------------------
(* Fairness: the event loop runs every callback that is due, time passes,   *)
(* and every fetch settles.                                                 *)

FairSpec ==
    /\ Spec
    /\ WF_vars(DOMContentLoaded)
    /\ WF_vars(ReconnectFire)
    /\ WF_vars(PollTick)
    /\ WF_vars(Tick)
    /\ WF_vars(\E k \in DOMAIN inflight : PollSettle(k, "reject", NoBody))

-----------------------------------------------------------------------------
(* The scope selector's handlers.  None of them touches the log pipeline.   *)

\* The guild lists the server returns.
GuildLists ==
    { GuildList(<<>>, {}), GuildList(<<"g1", "g2">>, {}), GuildList(<<"g1", "g2">>, Guilds) }

Pending(kind) == { f \in fetches : f.kind = kind }

CanFetch(f) == f \in fetches \/ Cardinality(fetches) < MaxFetches

\* fetchDashboardInit(), after its await: the status, the top bar, the guild list, the
\* now-playing card and the analytics of the response, which was requested
\* without a guild_id; then currentGuild if none is selected.  A request that
\* fails is caught and changes nothing.
InitResponse(ok, data, status) ==
    /\ Fetch("init", "all") \in fetches
    /\ fetches' = fetches \ {Fetch("init", "all")}
    /\ IF ok
       THEN /\ uptimeText' = UptimeOf(status)
            /\ navGuilds' = SeqRange(data.guilds)
            /\ nowPlaying' = UpdateNowPlaying(currentScope, data)
            /\ shownAnalytics' = "global"
            /\ currentGuild' = FirstGuild(currentGuild, data)
       ELSE UNCHANGED <<uptimeText, navGuilds, nowPlaying, shownAnalytics, currentGuild>>
    /\ UNCHANGED <<pipelineVars, currentScope, shownSongs, posts, libraryVars,
                   currentGroqPrompts, statusData>>

\* setInterval(fetchGuilds, 10000): fetchGuilds() up to its await.
GuildsTick ==
    /\ loaded
    /\ CanFetch(Fetch("guilds", "all"))
    /\ fetches' = fetches \cup {Fetch("guilds", "all")}
    /\ UNCHANGED <<pipelineVars, currentScope, currentGuild, navGuilds, nowPlaying,
                   shownAnalytics, shownSongs, posts, libraryVars, currentGroqPrompts,
                   statusVars>>

\* fetchGuilds(), after its await.
GuildsResponse(ok, data) ==
    /\ Fetch("guilds", "all") \in fetches
    /\ fetches' = fetches \ {Fetch("guilds", "all")}
    /\ IF ok
       THEN /\ currentGuild' = FirstGuild(currentGuild, data)
            /\ navGuilds' = SeqRange(data.guilds)
            /\ nowPlaying' = UpdateNowPlaying(currentScope, data)
       ELSE UNCHANGED <<currentGuild, navGuilds, nowPlaying>>
    /\ UNCHANGED <<pipelineVars, currentScope, shownAnalytics, shownSongs, posts,
                   libraryVars, currentGroqPrompts, statusVars>>

\* setInterval(fetchAnalytics, 15000) and setInterval(fetchSongs, 30000):
\* the function up to its await, the url built from currentScope.
ScopeTick(kind) ==
    /\ loaded
    /\ CanFetch(Fetch(kind, currentScope))
    /\ fetches' = fetches \cup {Fetch(kind, currentScope)}
    /\ UNCHANGED <<pipelineVars, currentScope, currentGuild, navGuilds, nowPlaying,
                   shownAnalytics, shownSongs, posts, libraryVars, currentGroqPrompts,
                   statusVars>>

\* fetchAnalytics(), fetchSongs() after the await: the data of the scope the
\* request named is shown; a failure is caught and shows nothing new.
ApplyResponse(shown, requested, scope, ok) == IF ok THEN requested ELSE shown

AnalyticsResponse(f, ok) ==
    /\ f \in Pending("analytics")
    /\ fetches' = fetches \ {f}
    /\ shownAnalytics' = ApplyResponse(shownAnalytics, f.scope, currentScope, ok)
    /\ UNCHANGED <<pipelineVars, currentScope, currentGuild, navGuilds, nowPlaying,
                   shownSongs, posts, libraryVars, currentGroqPrompts, statusVars>>

SongsResponse(f, ok) ==
    /\ f \in Pending("songs")
    /\ fetches' = fetches \ {f}
    /\ shownSongs' = ApplyResponse(shownSongs, f.scope, currentScope, ok)
    /\ UNCHANGED <<pipelineVars, currentScope, currentGuild, navGuilds, nowPlaying,
                   shownAnalytics, posts, libraryVars, currentGroqPrompts, statusVars>>

\* selectGuild(event, id), from an item of the guild list.
SelectGuild(id) ==
    /\ loaded
    /\ id \in navGuilds
    /\ currentGuild' = id
    /\ UNCHANGED <<pipelineVars, currentScope, navGuilds, nowPlaying, fetches,
                   shownAnalytics, shownSongs, posts, libraryVars, currentGroqPrompts,
                   statusVars>>

\* control(action), from a button of the now-playing card.
Control ==
    /\ nowPlaying # "none"
    /\ Cardinality(posts) < MaxPosts
    /\ posts' = IF currentGuild # "null"
                THEN posts \cup {Post("control", ControlTarget(currentScope, currentGuild))}
                ELSE posts
    /\ UNCHANGED <<pipelineVars, currentScope, currentGuild, navGuilds, nowPlaying,
                   fetches, shownAnalytics, shownSongs, libraryVars, currentGroqPrompts,
                   statusVars>>

\* .then(() => setTimeout(fetchGuilds, 200)): the control request resolved
\* and, 200 ms later, fetchGuilds() ran up to its await.
ControlResponse(p) ==
    /\ p \in posts
    /\ p.kind = "control"
    /\ posts' = posts \ {p}
    /\ fetches' = fetches \cup {Fetch("guilds", "all")}
    /\ UNCHANGED <<pipelineVars, currentScope, currentGuild, navGuilds, nowPlaying,
                   shownAnalytics, shownSongs, libraryVars, currentGroqPrompts, statusVars>>

\* saveServerSettings(), up to its await.
SaveServerSettings ==
    /\ loaded
    /\ Cardinality(posts) < MaxPosts
    /\ posts' = IF MutationGuard(currentScope)
                THEN posts \cup {Post("settings", MutationTarget(currentScope, currentGuild))}
                ELSE posts
    /\ UNCHANGED <<pipelineVars, currentScope, currentGuild, navGuilds, nowPlaying,
                   fetches, shownAnalytics, shownSongs, libraryVars, currentGroqPrompts,
                   statusVars>>

\* saveServerSettings(), after its await: an alert either way.
SettingsResponse(p) ==
    /\ p \in posts
    /\ p.kind = "settings"
    /\ posts' = posts \ {p}
    /\ UNCHANGED <<pipelineVars, currentScope, currentGuild, navGuilds, nowPlaying,
                   fetches, shownAnalytics, shownSongs, libraryVars, currentGroqPrompts,
                   statusVars>>

\* leaveServer(), up to its await; confirmed is the answer to confirm().
LeaveServer(confirmed) ==
    /\ loaded
    /\ Cardinality(posts) < MaxPosts
    /\ posts' = IF MutationGuard(currentScope) /\ confirmed
                THEN posts \cup {Post("leave", MutationTarget(currentScope, currentGuild))}
                ELSE posts
    /\ UNCHANGED <<pipelineVars, currentScope, currentGuild, navGuilds, nowPlaying,
                   fetches, shownAnalytics, shownSongs, libraryVars, currentGroqPrompts,
                   statusVars>>

\* if (res.ok) { ...; switchScope('global'); ... }
LeaveScope(scope, ok) == IF ok THEN "global" ELSE scope

\* leaveServer(), after its await: on res.ok, switchScope('global') and
\* fetchDashboardInit() up to its await; otherwise an alert.
LeaveResponse(p, ok) ==
    /\ p \in posts
    /\ p.kind = "leave"
    /\ posts' = posts \ {p}
    /\ currentScope' = LeaveScope(currentScope, ok)
    /\ fetches' = ScopeEffectsFetches(fetches, currentScope, currentScope')
                    \cup (IF ok THEN {Fetch("init", "all")} ELSE {})
    /\ libraryFetches' = ScopeEffectsLibrary(libraryFetches, currentScope, currentScope')
    /\ nowPlaying' = IF ok THEN "none" ELSE nowPlaying
    /\ UNCHANGED <<pipelineVars, currentGuild, navGuilds, shownAnalytics, shownSongs,
                   libraryData, libraryPage, libraryView, currentGroqPrompts, statusVars>>

\* The page right after DOMContentLoaded: the socket is connecting, and
\* fetchDashboardInit(), fetchSongs() and fetchLibrary() are suspended beside
\* the requests the effects made.
ScopeInit ==
    /\ loaded = TRUE
    /\ sockets = <<"CONNECTING">>
    /\ ws = 1
    /\ reconnectTimers = <<>>
    /\ pollIn = POLL_INTERVAL
    /\ inflight = <<>>
    /\ logs = <<>>
    /\ displayedLogIds = {}
    /\ scrollTop = 0
    /\ autoscrollEnabled = TRUE
    /\ currentScope = "global"
    /\ currentGuild = "null"
    /\ navGuilds = {}
    /\ nowPlaying = "none"
    /\ fetches = {Fetch("analytics", "global"), Fetch("init", "all"), Fetch("songs", "global")}
    /\ shownAnalytics = "none"
    /\ shownSongs = "none"
    /\ posts = {}
    /\ libraryFetches = {"global"}
    /\ libraryData = <<>>
    /\ libraryPage = 1
    /\ libraryView = RenderLibraryPage(<<>>, 1)
    /\ currentGroqPrompts = <<>>
    /\ statusData = Offline
    /\ uptimeText = UptimeOf(Offline)

ScopeNext ==
    \/ \E scope \in Scopes : SwitchScope(scope)
    \/ \E ok \in BOOLEAN, data \in GuildLists : InitResponse(ok, data, Offline)
    \/ GuildsTick
    \/ \E ok \in BOOLEAN, data \in GuildLists : GuildsResponse(ok, data)
    \/ \E kind \in {"analytics", "songs"} : ScopeTick(kind)
    \/ \E f \in fetches, ok \in BOOLEAN : AnalyticsResponse(f, ok)
    \/ \E f \in fetches, ok \in BOOLEAN : SongsResponse(f, ok)
    \/ \E id \in Guilds : SelectGuild(id)
    \/ Control
    \/ \E p \in posts : ControlResponse(p)
    \/ SaveServerSettings
    \/ \E p \in posts : SettingsResponse(p)
    \/ \E confirmed \in BOOLEAN : LeaveServer(confirmed)
    \/ \E p \in posts, ok \in BOOLEAN : LeaveResponse(p, ok)

ScopeSpec == ScopeInit /\ [][ScopeNext]_vars

\* The handlers that read or write currentScope, currentGuild or a settings
\* or leave request, and the responses that make room for new requests.
MutationNext ==
    \/ \E scope \in Scopes : SwitchScope(scope)
    \/ \E ok \in BOOLEAN, data \in GuildLists : InitResponse(ok, data, Offline)
    \/ \E f \in fetches, ok \in BOOLEAN : AnalyticsResponse(f, ok)
    \/ \E f \in fetches, ok \in BOOLEAN : SongsResponse(f, ok)
    \/ \E id \in Guilds : SelectGuild(id)
    \/ SaveServerSettings
    \/ \E p \in posts : SettingsResponse(p)
    \/ \E confirmed \in BOOLEAN : LeaveServer(confirmed)
    \/ \E p \in posts, ok \in BOOLEAN : LeaveResponse(p, ok)

MutationSpec == ScopeInit /\ [][MutationNext]_vars

-----------------------------------------------------------------------------
(* The library tab *)

\* The sizes of the libraries the server returns: empty, and around the
\* page boundaries.
LibrarySizes ==
    {0, 1, LIBRARY_PAGE_SIZE, LIBRARY_PAGE_SIZE + 1, 2 * LIBRARY_PAGE_SIZE,
     2 * LIBRARY_PAGE_SIZE + 1, MaxLibrary}

\* fetchLibrary(), after its await: the library of the response is cached,
\* the page is reset and rendered; a failure is caught and changes nothing.
LibraryResponse(scope, ok, n) ==
    /\ scope \in libraryFetches
    /\ libraryFetches' = libraryFetches \ {scope}
    /\ IF ok
       THEN /\ libraryData' = Library(n)
            /\ libraryPage' = 1
            /\ libraryView' = RenderLibraryPage(libraryData', libraryPage')
       ELSE UNCHANGED <<libraryData, libraryPage, libraryView>>
    /\ UNCHANGED <<pipelineVars, scopeVars, currentGroqPrompts, statusVars>>

\* changeLibraryPage(delta), from the Previous or Next button when it is
\* there and not disabled; the effect on libraryPage renders the page.
ChangeLibraryPage(delta) ==
    /\ libraryView.buttons
    /\ delta = -1 => ~libraryView.prevDisabled
    /\ delta = 1 => ~libraryView.nextDisabled
    /\ libraryPage' = libraryPage + delta
    /\ libraryView' = RenderLibraryPage(libraryData, libraryPage')
    /\ UNCHANGED <<pipelineVars, scopeVars, libraryFetches, libraryData,
                   currentGroqPrompts, statusVars>>

\* The page some time after DOMContentLoaded: the guilds are listed and the
\* first requests have settled, except fetchLibrary().
LibraryInit ==
    /\ loaded = TRUE
    /\ sockets = <<"CONNECTING">>
    /\ ws = 1
    /\ reconnectTimers = <<>>
    /\ pollIn = POLL_INTERVAL
    /\ inflight = <<>>
    /\ logs = <<>>
    /\ displayedLogIds = {}
    /\ scrollTop = 0
    /\ autoscrollEnabled = TRUE
    /\ currentScope = "global"
    /\ currentGuild = "g1"
    /\ navGuilds = Guilds
    /\ nowPlaying = "none"
    /\ fetches = {}
    /\ shownAnalytics = "global"
    /\ shownSongs = "global"
    /\ posts = {}
    /\ libraryFetches = {"global"}
    /\ libraryData = <<>>
    /\ libraryPage = 1
    /\ libraryView = RenderLibraryPage(<<>>, 1)
    /\ currentGroqPrompts = <<>>
    /\ statusData = Offline
    /\ uptimeText = UptimeOf(Offline)

LibraryNext ==
    \/ \E scope \in Scopes : SwitchScope(scope)
    \/ \E f \in fetches, ok \in BOOLEAN : AnalyticsResponse(f, ok)
    \/ \E f \in fetches, ok \in BOOLEAN : SongsResponse(f, ok)
    \/ \E scope \in Scopes, ok \in BOOLEAN, n \in LibrarySizes : LibraryResponse(scope, ok, n)
    \/ \E delta \in {-1, 1} : ChangeLibraryPage(delta)

LibrarySpec == LibraryInit /\ [][LibraryNext]_vars

-----------------------------------------------------------------------------
(* The Groq prompts of the settings tab *)

PromptNames == {"a", "b"}

\* The prompts a saved configuration may hold.
StoredPrompts == { Prompt(n, e) : n \in PromptNames, e \in {"true", "false", "undefined"} }

\* data.groq_custom_prompts || []
StoredLists == UNION { [1 .. n -> StoredPrompts] : n \in 0 .. MaxPrompts - 1 }

appOther == <<scopeVars, libraryVars, statusVars>>

\* loadSettingsTab(), after its await: currentGroqPrompts = data.groq_custom_prompts || []
LoadSettingsTab(list) ==
    /\ loaded
    /\ currentGroqPrompts' = list
    /\ UNCHANGED <<pipelineVars, appOther>>

\* savePrompt(), the editor opened by openPromptEditor(index)
SavePrompt(index, name) ==
    /\ loaded
    /\ index = -1 \/ HasIndex(currentGroqPrompts, index)
    /\ currentGroqPrompts' = SavePromptList(currentGroqPrompts, index, name)
    /\ Len(currentGroqPrompts') <= MaxPrompts
    /\ UNCHANGED <<pipelineVars, appOther>>

\* deleteGroqPrompt(index), from the button of entry index
DeleteGroqPrompt(index, confirmed) ==
    /\ loaded
    /\ HasIndex(currentGroqPrompts, index)
    /\ currentGroqPrompts' = IF confirmed THEN Splice1(currentGroqPrompts, index)
                             ELSE currentGroqPrompts
    /\ UNCHANGED <<pipelineVars, appOther>>

\* toggleGroqPrompt(index), from the checkbox of entry index
ToggleGroqPrompt(index) ==
    /\ loaded
    /\ HasIndex(currentGroqPrompts, index)
    /\ currentGroqPrompts' = TogglePromptList(currentGroqPrompts, index)
    /\ UNCHANGED <<pipelineVars, appOther>>

PromptIndices == 0 .. MaxPrompts - 1

PromptNext ==
    \/ \E list \in StoredLists : LoadSettingsTab(list)
    \/ \E index \in {-1} \cup PromptIndices, name \in PromptNames : SavePrompt(index, name)
    \/ \E index \in PromptIndices, confirmed \in BOOLEAN : DeleteGroqPrompt(index, confirmed)
    \/ \E index \in PromptIndices : ToggleGroqPrompt(index)

PromptSpec == ScopeInit /\ [][PromptNext]_vars

-----------------------------------------------------------------------------
(* The status card *)

\* fetchStatus(), after its await: statusData is the response, or the
\* offline status when the request failed; the effect on statusData runs
\* updateStatus, which writes formatUptime(data.uptime_seconds) to #stat-uptime.
StatusResponse(ok, data) ==
    /\ loaded
    /\ statusData' = IF ok THEN data ELSE Offline
    /\ uptimeText' = UptimeOf(statusData')
    /\ UNCHANGED <<pipelineVars, scopeVars, libraryVars, currentGroqPrompts>>

UptimeNext ==
    \/ \E ok \in BOOLEAN, data \in Statuses : StatusResponse(ok, data)
    \/ \E ok \in BOOLEAN, status \in Statuses :
          InitResponse(ok, GuildList(<<>>, {}), status)

UptimeSpec == ScopeInit /\ [][UptimeNext]_vars

-----------------------------------------------------------------------------
(* Properties *)

Accept(st, log) == AddLogEntry(st, autoscrollEnabled, log)

\* C1: duplicate suppression is idempotent.  In every reachable state and for
\* every event e, accepting e twice leaves the buffer, the seen-set and the
\* scroll position exactly as accepting it once does, and an event whose key
\* is already in the seen-set changes nothing.
C1_Idempotent ==
    \A e \in Events :
        LET once == Accept(Current, e)
        IN  /\ Accept(once, e) = once
            /\ LogId(e) \in displayedLogIds => once = Current

\* An event has been accepted and can be delivered again.
C1_Witness ==
    \E e \in Events : LogId(e) \in displayedLogIds /\ logs = <<e>>

\* C2: the buffer never holds more than 500 entries, whatever frames, poll
\* batches, closes and reconnects have happened.
C2_Bounded == Len(logs) <= MAX_LOGS

\* More than 500 events have been accepted and the buffer is full.
C2_Witness == Len(logs) = MAX_LOGS /\ Accepted > MAX_LOGS + 1

\* C3: eviction is FIFO.  With the flood accepted in order from an empty
\* buffer, the buffer is always the latest (at most 500) accepted events in
\* their order of acceptance; after 501 events the length is exactly 500 and
\* the first event is the one that is gone.
C3_Fifo ==
    LET n == Min(Accepted, MAX_LOGS)
    IN  /\ logs = [i \in 1 .. n |-> FloodEvent(Accepted - n + i)]
        /\ Accepted = MAX_LOGS + 1 =>
             /\ Len(logs) = MAX_LOGS
             /\ \A i \in 1 .. Len(logs) : logs[i] # FloodEvent(1)
             /\ logs[1] = FloodEvent(2)

\* Exactly 501 events have been accepted.
C3_Witness == Accepted = MAX_LOGS + 1 /\ Len(logs) = MAX_LOGS

\* C4: under every interleaving of frames and poll batches, closes and
\* reconnects included, no two entries of the buffer have the same key.
C4_NoDuplicateEntries ==
    \A i, j \in 1 .. Len(logs) : i # j => LogId(logs[i]) # LogId(logs[j])

\* The channel has delivered, it is open (again), and a poll that started
\* while it was down is about to deliver too.
C4_Witness ==
    /\ Len(logs) >= 2
    /\ WsIsOpen
    /\ inflight # <<>>

\* The first 50 characters of a message, as the claim C5 reads them.
First50(m) == SubSeq(m, 1, IF Len(m) < 50 THEN Len(m) ELSE 50)

SameTriple(a, b) ==
    /\ a.timestamp = b.timestamp
    /\ a.level = b.level
    /\ First50(a.message) = First50(b.message)

\* C5: two events with the same timestamp, level and first 50 characters of
\* message are the same event: once one is accepted the other is discarded,
\* even when the rest of its message differs.
C5_PrefixCollision ==
    \A a, b \in Events :
        SameTriple(a, b) =>
            LET once == Accept(Current, a)
            IN  Accept(once, b) = once

\* One of two events that differ only after character 50 is in the buffer,
\* the other is not.
C5_Witness ==
    \E a, b \in Events :
        /\ a # b
        /\ SameTriple(a, b)
        /\ \E i \in 1 .. Len(logs) : logs[i] = a
        /\ \A i \in 1 .. Len(logs) : logs[i] # b

\* The number of sockets in readyState r.
CountIn(socks, r) == Cardinality({i \in DOMAIN socks : socks[i] = r})

\* A step in which some socket's close event fires.
CloseStep ==
    /\ Len(sockets') = Len(sockets)
    /\ \E i \in DOMAIN sockets : sockets[i] # "CLOSED" /\ sockets'[i] = "CLOSED"

\* A step in which a new socket is constructed.
ConnectStep == CountIn(sockets', "CONNECTING") > CountIn(sockets, "CONNECTING")

\* C6: every close event schedules exactly one reconnect timer, always of
\* 3 seconds, and nothing else schedules one; a timer is consumed, and a new
\* socket constructed after the first, only when at least 3 seconds have
\* passed since the close that scheduled it.
C6_ReconnectAfterDelay ==
    [][ /\ CloseStep =>
              /\ Len(reconnectTimers') = Len(reconnectTimers) + 1
              /\ SubSeq(reconnectTimers', 1, Len(reconnectTimers)) = reconnectTimers
              /\ reconnectTimers'[Len(reconnectTimers')].remaining = RECONNECT_DELAY
        /\ ~CloseStep => Len(reconnectTimers') <= Len(reconnectTimers)
        /\ Len(reconnectTimers') < Len(reconnectTimers) =>
              /\ reconnectTimers' = Tail(reconnectTimers)
              /\ Head(reconnectTimers).waited >= RECONNECT_DELAY
        /\ (ConnectStep /\ loaded) => Len(reconnectTimers') < Len(reconnectTimers)
      ]_vars

\* The socket has closed and its reconnect timer has run its 3 seconds.
C6_Witness ==
    /\ ws # 0
    /\ sockets[ws] = "CLOSED"
    /\ reconnectTimers # <<>>
    /\ Head(reconnectTimers).remaining = 0
    /\ Head(reconnectTimers).waited >= RECONNECT_DELAY

\* There is no channel: ws is null, or the socket it names has closed.
ChannelDown == ws = 0 \/ sockets[ws] = "CLOSED"

\* C7: the reconnect loop never gives up.  Whenever there is no channel, a
\* connection attempt (a call of initWebSocket) eventually follows, also after
\* an attempt that failed inside initWebSocket.  Only an attempt ends a state
\* without channel, so this says: the channel is there again and again, or
\* attempts are made again and again.
C7_NeverGivesUp ==
    \/ []<>(~ChannelDown)
    \/ []<><<DOMContentLoaded \/ ReconnectFire>>_vars

\* A step of the poll timer: only its callback re-arms the countdown.
PollTickStep == pollIn' > pollIn

\* C8: a poll tick starts a fetch if and only if the channel is absent or not
\* Open at that moment; with the channel Open the tick changes neither the
\* polls in flight nor the seen-set, the buffer or the scroll position; and
\* the timer is re-armed at every tick and is never cancelled, whatever the
\* channel's state.
C8_PollOnlyWhenDown ==
    /\ [][ PollTickStep =>
             /\ pollIn' = POLL_INTERVAL
             /\ UNCHANGED <<logs, displayedLogIds, scrollTop>>
             /\ IF WsIsOpen
                THEN inflight' = inflight
                ELSE Len(inflight') = Len(inflight) + 1
         ]_vars
    /\ []((pollIn = 0 /\ Len(inflight) < MaxInflight) => ENABLED PollTick)

\* A tick has just started a fetch with the channel down.
C8_Witness ==
    /\ inflight # <<>>
    /\ pollIn = POLL_INTERVAL
    /\ ~WsIsOpen
    /\ loaded

\* C9 as claimed: no poll completion appends entries while the channel is Open.
C9_SingleSource ==
    [][ (Len(inflight') < Len(inflight) /\ logs' # logs) => ~WsIsOpen ]_vars

\* C9, amended: every poll in flight was started at a tick at which the
\* channel was absent or not Open (it may complete after the channel opened).
C9_StartedWhileDown ==
    \A k \in DOMAIN inflight : ~inflight[k].openAtStart

\* A poll started while the channel was down is still in flight and the
\* channel is Open.
C9_Witness ==
    /\ inflight # <<>>
    /\ WsIsOpen
    /\ logs = <<>>

\* Within 100 pixels of the bottom, as the claim C10 reads it.
NearBottom(n, top) == (ScrollHeight(n) - ClientHeight) - top <= 100

\* C10: accepting a novel event scrolls the viewport to the bottom when
\* autoscroll is enabled and, before the append, the viewport was within 100
\* pixels of the bottom or the buffer was empty; in every other case it
\* leaves the scroll position as it was.
C10_Autoscroll ==
    \A e \in Events :
        LogId(e) \notin displayedLogIds =>
            LET after == Accept(Current, e)
            IN  IF autoscrollEnabled /\ (NearBottom(Len(logs), scrollTop) \/ logs = <<>>)
                THEN after.scrollTop = MaxScrollTop(Len(after.logs))
                ELSE after.scrollTop = scrollTop

\* Autoscroll is enabled, the user has scrolled away from the bottom of a
\* non-empty buffer, and a novel event can arrive.
C10_Witness ==
    /\ autoscrollEnabled
    /\ logs # <<>>
    /\ ~NearBottom(Len(logs), scrollTop)
    /\ \E e \in Events : LogId(e) \notin displayedLogIds

-----------------------------------------------------------------------------
(* C11 - C14: the seen-set and the order of the buffer *)

\* The first entry of the flood's buffer is FloodEvent(OldestKept).
OldestKept == IF logs = <<>> THEN 1 ELSE logs[1].timestamp

\* C11: the seen-set only grows: no step removes a key from it, and the key
\* of an entry evicted from the buffer stays in it, so that the evicted event,
\* delivered again, is discarded and leaves seen-set, buffer and scroll
\* position as they are.
C11_SeenSetOnlyGrows ==
    /\ [][displayedLogIds \subseteq displayedLogIds']_vars
    /\ [](\A i \in 1 .. OldestKept - 1 :
            /\ \A k \in DOMAIN logs : logs[k] # FloodEvent(i)
            /\ ToString(i) \o "-info-m" \o ToString(i) \in displayedLogIds
            /\ Accept(Current, FloodEvent(i)) = Current)

\* FloodEvent(1) has been evicted from the full buffer and the channel is
\* open, so the event can be delivered again.
C11_Witness ==
    /\ Len(logs) = MAX_LOGS
    /\ OldestKept > 1
    /\ WsIsOpen

IsPrefix(s, t) == Len(s) <= Len(t) /\ SubSeq(t, 1, Len(s)) = s

\* C12: a novel event is appended at the tail of the buffer, whatever its
\* timestamp, and every step extends the buffer at its tail only: the order
\* of the buffer is the order of first acceptance.
C12_AppendAtTail ==
    /\ [](\A e \in Events :
            (\A k \in DOMAIN logs : ~SameTriple(logs[k], e)) =>
                Accept(Current, e).logs = logs \o <<e>>)
    /\ [][IsPrefix(logs, logs')]_vars

\* An event with an older timestamp stands behind a newer one, having been
\* accepted after it.
C12_Witness ==
    /\ Len(logs) >= 2
    /\ \E k \in 1 .. Len(logs) - 1 : logs[k].timestamp > logs[k + 1].timestamp
    /\ WsIsOpen

\* The events of batch, in the order of the batch, less those whose triple is
\* that of an event of have or of an earlier event of the batch.
RECURSIVE FirstArrivals(_, _)
FirstArrivals(have, batch) ==
    IF batch = <<>> THEN <<>>
    ELSE LET e == Head(batch)
         IN  IF \E h \in have : SameTriple(h, e)
             THEN FirstArrivals(have, Tail(batch))
             ELSE <<e>> \o FirstArrivals(have \cup {e}, Tail(batch))

Entries == { logs[k] : k \in DOMAIN logs }

\* C13: the events of one poll response are accepted in the order of its
\* list, and a frame is accepted as it arrives: what a pending response adds
\* to the buffer are its first arrivals in list order, and every step that
\* changes the buffer adds at its tail the events of one list no longer than
\* one response: nothing of another frame or response comes in between.
C13_ArrivalOrder ==
    /\ [](inflight # <<>> =>
            \A b \in EventBatches :
                AddAll(Current, autoscrollEnabled, b).logs = logs \o FirstArrivals(Entries, b))
    /\ [](\A e \in Events :
            OnMessage(Current, autoscrollEnabled, Frame(e)).logs = logs \o FirstArrivals(Entries, <<e>>))
    /\ [][logs' # logs =>
            /\ IsPrefix(logs, logs')
            /\ SubSeq(logs', Len(logs) + 1, Len(logs')) \in EventBatches]_vars

\* No socket was ever created, so the two entries of the buffer came from
\* poll responses, the older timestamp after the newer.
C13_Witness ==
    /\ loaded
    /\ sockets = <<>>
    /\ Len(logs) = 2
    /\ logs[1].timestamp > logs[2].timestamp

\* C14: on events whose keys are already in the seen-set the order of two
\* accepts does not matter: both orders leave seen-set, buffer and scroll
\* position exactly as they were.
C14_CommuteOnSeen ==
    \A a, b \in Events :
        (LogId(a) \in displayedLogIds /\ LogId(b) \in displayedLogIds) =>
            /\ Accept(Accept(Current, a), b) = Accept(Accept(Current, b), a)
            /\ Accept(Accept(Current, a), b) = Current

\* Two events with different keys have been accepted, and the viewport is
\* near the bottom without being at it, with autoscroll enabled.
C14_Witness ==
    /\ \E a, b \in Events :
          /\ ~SameTriple(a, b)
          /\ LogId(a) \in displayedLogIds
          /\ LogId(b) \in displayedLogIds
    /\ autoscrollEnabled
    /\ scrollTop < MaxScrollTop(Len(logs))
    /\ NearBottom(Len(logs), scrollTop)

-----------------------------------------------------------------------------
(* C15 - C18: malformed payloads, failed pulls, channel errors *)

\* No entry of the buffer has the triple of e.
Novel(e) == \A k \in DOMAIN logs : ~SameTriple(logs[k], e)

C16_OnlyOffenderDropped ==
    inflight # <<>> =>
        \A b \in EventPoisonedBatches :
            LET after == OnResponse(Current, autoscrollEnabled, "ok", Body(TRUE, b))
            IN  \A k \in DOMAIN b :
                    ~LogThrows(b[k]) =>
                        \E j \in DOMAIN after.logs : SameTriple(after.logs[j], b[k])

\* The bodies a failed pull may carry.
AnyBody == { NoBody } \cup { Body(TRUE, b) : b \in EventBatches }

\* C17: a failed pull (the fetch rejects, or the status is not a success)
\* skips the tick: whatever its body, seen-set, buffer and scroll position
\* stay as they are; the step that ends a pull starts no other and leaves the
\* interval timer alone; pulls start at ticks only; and a tick that is due
\* with no pull pending can run.
C17_FailedPullSkipsTick ==
    /\ [](\A outcome \in {"reject", "notok"} : \A body \in AnyBody :
            OnResponse(Current, autoscrollEnabled, outcome, body) = Current)
    /\ [][Len(inflight') < Len(inflight) =>
            /\ Len(inflight') = Len(inflight) - 1
            /\ pollIn' = pollIn]_vars
    /\ [][Len(inflight') > Len(inflight) => PollTickStep]_vars
    /\ []((pollIn = 0 /\ inflight = <<>>) => ENABLED PollTick)

\* A pull is pending while the channel is down, the buffer has an entry and
\* the response could carry a novel event.
C17_Witness ==
    /\ inflight # <<>>
    /\ ~WsIsOpen
    /\ logs # <<>>
    /\ \E e \in Events : Novel(e)

\* C18: a channel error event by itself changes nothing: the step of the
\* error handler leaves every variable as it is (no reconnect timer, the same
\* handle, seen-set and buffer), and the number of pending reconnects grows
\* only in a step that closes a socket.
C18_ErrorChangesNothing ==
    /\ [][\A i \in DOMAIN sockets : SocketError(i) => UNCHANGED vars]_vars
    /\ [][Len(reconnectTimers') > Len(reconnectTimers) => CloseStep]_vars

\* The socket ws names is still connecting, so that an error can be raised on
\* it, with no reconnect pending and an entry in the buffer.
C18_Witness ==
    /\ ws # 0
    /\ sockets[ws] = "CONNECTING"
    /\ reconnectTimers = <<>>
    /\ logs # <<>>

-----------------------------------------------------------------------------
(* C19, C20: the toggle, and what removes entries *)

\* C19: autoscroll starts enabled; while it is off accepting an event never
\* moves the viewport; the step that switches it on puts the viewport at the
\* bottom, and the step that switches it off leaves the viewport where it is.
C19_AutoscrollToggle ==
    /\ [](~loaded => autoscrollEnabled)
    /\ [](~autoscrollEnabled =>
            \A e \in Events : Accept(Current, e).scrollTop = scrollTop)
    /\ [][(~autoscrollEnabled /\ autoscrollEnabled') =>
            /\ scrollTop' = ScrollHeight(Len(logs)) - ClientHeight
            /\ logs' = logs]_vars
    /\ [][(autoscrollEnabled /\ ~autoscrollEnabled') => scrollTop' = scrollTop]_vars

\* Autoscroll is off, the viewport is within 100 pixels of the bottom of a
\* two-entry buffer without being at it, and a novel event can arrive.
C19_Witness ==
    /\ ~autoscrollEnabled
    /\ Len(logs) = 2
    /\ NearBottom(Len(logs), scrollTop)
    /\ scrollTop < MaxScrollTop(Len(logs))
    /\ \E e \in Events : Novel(e)

\* The entries a step drops from the head of the buffer, given that it
\* accepts as many events as keys join the seen-set.
Dropped ==
    Len(logs) + (Cardinality(displayedLogIds') - Cardinality(displayedLogIds)) - Len(logs')

\* C20: an entry leaves the buffer only by overflow eviction during an
\* accept.  A step that changes the buffer accepts an event (a key joins the
\* seen-set) and is no close, error, reconnect, tick, toggle or scope step;
\* it keeps the entries in their order, dropping some at the head only when
\* the buffer ends at its cap; a scope change leaves the buffer alone; and
\* while at most 500 events have been accepted the old buffer is a prefix of
\* the new one.
C20_OnlyEviction ==
    [][/\ logs' # logs =>
            /\ displayedLogIds \subseteq displayedLogIds'
            /\ displayedLogIds' # displayedLogIds
            /\ UNCHANGED <<loaded, sockets, ws, reconnectTimers, pollIn, autoscrollEnabled>>
            /\ Dropped >= 0
            /\ Dropped <= Len(logs)
            /\ SubSeq(logs, Dropped + 1, Len(logs)) = SubSeq(logs', 1, Len(logs) - Dropped)
            /\ Dropped > 0 => Len(logs') = MAX_LOGS
       /\ (\E scope \in Scopes : SwitchScope(scope)) => logs' = logs
       /\ Cardinality(displayedLogIds') <= MAX_LOGS => IsPrefix(logs, logs')]_vars

\* The 500th and the 501st event have been accepted: the buffer is full and
\* its oldest entry has been evicted.
C20_Witness ==
    /\ Len(logs) = MAX_LOGS
    /\ logs[1] = FloodEvent(2)
    /\ logs[MAX_LOGS] = FloodEvent(MAX_LOGS + 1)

-----------------------------------------------------------------------------
(* C22, C23, C30: one reconnect chain, distinct keys, seen-set and buffer *)

\* C22: there is a single reconnect chain: the sockets that are connecting
\* or open (or closing) and the pending reconnect timers number at most one
\* together, so no two live sockets exist at once.
C22_SingleChain ==
    /\ CountIn(sockets, "CONNECTING") + CountIn(sockets, "OPEN") + Len(reconnectTimers) <= 1
    /\ Cardinality({ i \in DOMAIN sockets : sockets[i] # "CLOSED" }) + Len(reconnectTimers) <= 1

\* The socket ws names has closed after entries were shown, and its one
\* successor is scheduled and not yet due.
C22_Witness ==
    /\ ws # 0
    /\ sockets[ws] = "CLOSED"
    /\ Len(reconnectTimers) = 1
    /\ reconnectTimers[1].remaining > 0
    /\ logs # <<>>

\* Events that differ from LogEvent(1000, "info", "A"), or from one another,
\* in the timestamp only, in the level only, or within the first 50
\* characters of the message only.
Probes ==
    { LogEvent(1000, "info", "A"),
      LogEvent(999, "info", "A"),
      LogEvent(1000, "warning", "A"),
      LogEvent(1000, "info", "B"),
      LogEvent(1000, "info", Pad49 \o "0x"),
      LogEvent(1000, "info", Pad49 \o "1x") }

\* The pairs of probes that differ in one part of the triple at least.
DistinctProbes == { p \in Probes \X Probes : ~SameTriple(p[1], p[2]) }

\* Pairs that differ in the timestamp only, in the level only, in the first
\* character of the message only, and in its 50th character only.
OneApartProbes ==
    { <<LogEvent(1000, "info", "A"), LogEvent(999, "info", "A")>>,
      <<LogEvent(1000, "info", "A"), LogEvent(1000, "warning", "A")>>,
      <<LogEvent(1000, "info", "A"), LogEvent(1000, "info", "B")>>,
      <<LogEvent(1000, "info", Pad49 \o "0x"), LogEvent(1000, "info", Pad49 \o "1x")>> }

ProbeKeysDiffer == \A p \in DistinctProbes : LogId(p[1]) # LogId(p[2])

\* C23: distinct events are never suppressed: two events that differ in
\* timestamp, in level or in the first 50 characters of message have
\* different keys, and the second is appended after the first was accepted.
C23_DistinctNotSuppressed ==
    /\ ProbeKeysDiffer
    /\ OneApartProbes \subseteq DistinctProbes
    /\ \A p \in OneApartProbes :
          Novel(p[2]) =>
              LET first == Accept(Current, p[1])
              IN  Accept(first, p[2]).logs = first.logs \o <<p[2]>>

\* An entry is in the buffer and a probe that differs from it in the level
\* only has not been seen.
C23_Witness ==
    /\ \E k \in DOMAIN logs : logs[k] = LogEvent(1000, "info", "A")
    /\ Novel(LogEvent(1000, "warning", "A"))
    /\ WsIsOpen

\* C30: the key of every entry of the buffer is in the seen-set, so the
\* seen-set is never smaller than the buffer, and its size is the number of
\* events of the flood accepted so far (the flood arrives in order, so that
\* number is the index of the newest entry).
C30_SeenCoversBuffer ==
    /\ \A k \in DOMAIN logs :
          ToString(logs[k].timestamp) \o "-" \o logs[k].level \o "-" \o First50(logs[k].message)
              \in displayedLogIds
    /\ Cardinality(displayedLogIds) >= Len(logs)
    /\ logs # <<>> => Cardinality(displayedLogIds) = logs[Len(logs)].timestamp

\* The buffer is full and entries have been evicted: the seen-set is larger
\* than the buffer.
C30_Witness ==
    /\ Len(logs) = MAX_LOGS
    /\ Cardinality(displayedLogIds) > MAX_LOGS
    /\ inflight # <<>>

-----------------------------------------------------------------------------
(* C21, C24, C25, C26: the scope selector *)

\* C21: every change of scope (global to server, server to server, server to
\* global) re-fetches both the analytics and the song listing for the new
\* scope: in the step that changes currentScope, a request for the analytics
\* of the new scope and one for its songs are in flight.
C21_ScopeChangeRefetches ==
    [][currentScope' # currentScope =>
          /\ [kind |-> "analytics", scope |-> currentScope'] \in fetches'
          /\ [kind |-> "songs", scope |-> currentScope'] \in fetches']_vars

\* C24: the displays that depend on the scope never show another scope's
\* data once the requests settle, because a late response for a scope that
\* was selected before does not overwrite what is shown: the response to a
\* request made for a scope other than the current one leaves the analytics
\* and the song listing on screen as they are.
C24_LateResponseIgnored ==
    [][\A f \in fetches \ fetches' :
          f.scope \in Scopes \ {currentScope} =>
              /\ f.kind = "analytics" => shownAnalytics' = shownAnalytics
              /\ f.kind = "songs" => shownSongs' = shownSongs]_vars

\* C25: a control issued from the now-playing card goes to the guild whose
\* song the card shows: in a server scope, where the card shows the song of
\* the scope's guild, the request is posted to the guild of the current scope.
C25_ControlTargetsScope ==
    [][\A p \in posts' \ posts :
          (p.kind = "control" /\ currentScope # "global" /\ nowPlaying = currentScope)
              => p.guild = currentScope]_vars

\* C26: saveServerSettings and leaveServer issue no request in the global
\* scope; otherwise the request goes to the guild that is the current scope
\* at the call, and stays with that guild when the scope changes while it is
\* in flight; leaveServer leaves the scope when it starts, and its response
\* switches to 'global' only when it is successful.
C26_MutationsTargetScope ==
    [][/\ \A p \in posts' \ posts : p.kind \in {"settings", "leave"} =>
             /\ currentScope # "global"
             /\ p.guild = currentScope
             /\ currentScope' = currentScope
       /\ currentScope' # currentScope => posts' \subseteq posts
       /\ \A p \in posts \ posts' :
             /\ p.kind = "settings" => currentScope' = currentScope
             /\ p.kind = "leave" =>
                   /\ currentScope' \in {currentScope, "global"}
                   /\ LeaveResponse(p, FALSE) => currentScope' = currentScope]_vars

\* A settings or leave request is in flight for a guild that is no longer the
\* scope: the scope was switched to another server after the call.
C26_Witness ==
    \E p \in posts :
        /\ p.kind \in {"settings", "leave"}
        /\ currentScope \in Guilds
        /\ p.guild # currentScope
-----------------------------------------------------------------------------
(* C27: the library's pagination *)

\* Items [(p-1)*50, p*50) of the cached library.
PageItems(data, p) ==
    LET first == (p - 1) * 50
        count == IF Len(data) - first < 50 THEN Len(data) - first ELSE 50
    IN  [i \in 1 .. count |-> data[first + i]]

\* C27: every fetchLibrary that completes with a library resets the page to 1;
\* the rendered page is exactly items [(p-1)*50, p*50) of the cached library;
\* and, the page being changed only through the enabled Previous and Next
\* buttons, 1 <= p <= ceil(length/50) whenever the library is not empty.
C27_PageInRange ==
    /\ [](libraryData # <<>> =>
            /\ 1 <= libraryPage
            /\ (libraryPage - 1) * 50 < Len(libraryData)
            /\ libraryView.rows = PageItems(libraryData, libraryPage)
            /\ libraryView.prevDisabled = (libraryPage = 1)
            /\ libraryView.nextDisabled = (libraryPage * 50 >= Len(libraryData)))
    /\ [][\A scope \in libraryFetches \ libraryFetches', n \in LibrarySizes :
              LibraryResponse(scope, TRUE, n) => libraryPage' = 1]_vars

\* The last, partial page of a library of three pages is shown, reached with
\* the Next button.
C27_Witness ==
    /\ Len(libraryData) > 2 * 50
    /\ libraryPage = 3
    /\ libraryView.nextDisabled
    /\ ~libraryView.prevDisabled

-----------------------------------------------------------------------------
(* C28: the Groq prompts *)

\* What the list shows for a prompt: checked unless enabled is false.
Checked(p) == p.enabled # "false"

Others(before, after, k) ==
    \A j \in DOMAIN before : j # k => after[j] = before[j]

\* C28: the list is edited positionally.  savePrompt with index i >= 0
\* replaces exactly entry i and keeps the length, the other entries and the
\* enabled flag of entry i; with index -1 it appends one entry with enabled =
\* true; deleteGroqPrompt(i), confirmed, removes exactly entry i and keeps the
\* order of the rest; toggleGroqPrompt(i) flips the enabled state the list
\* shows for entry i.
C28_PositionalEdits ==
    [][LET before == currentGroqPrompts
           after  == currentGroqPrompts'
       IN  /\ \A i \in PromptIndices, n \in PromptNames : SavePrompt(i, n) =>
                 /\ Len(after) = Len(before)
                 /\ Others(before, after, i + 1)
                 /\ after[i + 1].name = n
                 /\ after[i + 1].enabled = before[i + 1].enabled
           /\ \A n \in PromptNames : SavePrompt(-1, n) =>
                 after = before \o <<[name |-> n, enabled |-> "true"]>>
           /\ \A i \in PromptIndices : DeleteGroqPrompt(i, TRUE) =>
                 /\ Len(after) = Len(before) - 1
                 /\ \A j \in DOMAIN after : after[j] = before[IF j <= i THEN j ELSE j + 1]
           /\ \A i \in PromptIndices : ToggleGroqPrompt(i) =>
                 /\ Len(after) = Len(before)
                 /\ Others(before, after, i + 1)
                 /\ Checked(after[i + 1]) = ~Checked(before[i + 1])]_vars

-----------------------------------------------------------------------------
(* C29: formatUptime *)

\* The days, hours, minutes and seconds of a number of seconds.
Units(s) == <<s \div 86400, (s \div 3600) % 24, (s \div 60) % 60, s % 60>>

\* The units that are not 0, in the order d, h, m, s, separated by a space.
Decomposed(s) ==
    LET u == Units(s)
        d == IF u[1] > 0 THEN ToString(u[1]) \o "d" ELSE ""
        h == IF u[2] > 0 THEN ToString(u[2]) \o "h" ELSE ""
        m == IF u[3] > 0 THEN ToString(u[3]) \o "m" ELSE ""
        x == IF u[4] > 0 THEN ToString(u[4]) \o "s" ELSE ""
        Glue(a, b) == IF a = "" THEN b ELSE IF b = "" THEN a ELSE a \o " " \o b
    IN  Glue(Glue(Glue(d, h), m), x)

\* C29: formatUptime decomposes exactly.  For the number of seconds s of the
\* status it returns the units d, h, m, s in that order without those that
\* are 0, with hours < 24, minutes < 60, seconds < 60 and
\* days*86400 + hours*3600 + minutes*60 + seconds = s; for 0 and for a status
\* without uptime_seconds it returns '0s'.
C29_ExactDecomposition ==
    IF "uptime_seconds" \in DOMAIN statusData
    THEN LET s == statusData.uptime_seconds
             u == Units(s)
         IN  /\ u[2] < 24 /\ u[3] < 60 /\ u[4] < 60
             /\ u[1] * 86400 + u[2] * 3600 + u[3] * 60 + u[4] = s
             /\ UptimeOf(statusData) = (IF s = 0 THEN "0s" ELSE Decomposed(s))
             /\ \A k \in DOMAIN UptimeParts(s) : s > 0 => UptimeParts(s)[k].value > 0
    ELSE UptimeOf(statusData) = "0s"

\* The status card shows an uptime with all four units.
C29_Witness ==
    /\ "uptime_seconds" \in DOMAIN statusData
    /\ statusData.uptime_seconds = 86400 + 23 * 3600 + 59 * 60 + 30
    /\ uptimeText = "1d 23h 59m 30s"

====
